---- MODULE Spec2Model ----
(***************************************************************************)
(* Model of App.py: the RuleChecker of the Power BI BPA rule checker.      *)
(* File contents are strings; the regular expressions of the checkers and  *)
(* fixers are operators over those strings, one per pattern, that follow   *)
(* Python's re semantics (leftmost match, greedy runs, non-overlapping     *)
(* finditer/sub scans).  Positions are 1-based: position p stands for the  *)
(* Python offset p - 1.                                                    *)
(***************************************************************************)
EXTENDS Integers, Sequences, FiniteSets, TLC

VARIABLES
    disk,         \* file id -> text of the file on disk
    fault,        \* I/O failure met by the last operation: <<>> or <<[file, kind]>>
    content,      \* self.content: <<>> for None, <<text>> once loaded
    table_files,  \* self.table_files: sequence of file ids
    lastOp,       \* the operation that ran last
    prevOp,       \* what ran before lastOp: the last fixer call ("fixS", "fixP"),
                  \* with at most script reruns since, or the same checker call
                  \* ("same"), else "other"
    pending,      \* rule whose violation list is on screen with its Fix button
    result,       \* list returned by the last checker call (<<>> stands for None)
    passed,       \* violation list handed to the fixer call, if lastOp is one
    fixErr,       \* TRUE iff the fixer call lastOp or prevOp returned an error string
    preDisk       \* disk as it was when the last operation started

vars == <<disk, fault, content, table_files, lastOp, prevOp, pending, result,
          passed, fixErr, preDisk>>

-----------------------------------------------------------------------------
(* Bounds *)

\* lines per file in the single-file specification
MaxLines == 2

\* table files beside model.tmdl in the multi-file specification
NumTables == 2

-----------------------------------------------------------------------------
(* Characters *)

LowerSeq == "abcdefghijklmnopqrstuvwxyz"

UpperSeq == "ABCDEFGHIJKLMNOPQRSTUVWXYZ"

DigitSeq == "0123456789"

CharAt(s, p) == IF p >= 1 /\ p <= Len(s) THEN SubSeq(s, p, p) ELSE ""

CharsOf(s) == {SubSeq(s, i, i) : i \in 1..Len(s)}

Lower == CharsOf(LowerSeq)

Upper == CharsOf(UpperSeq)

Digit == CharsOf(DigitSeq)

\* [a-zA-Z]
Letter == Lower \cup Upper

\* [a-zA-Z0-9_], which is \w on the characters of the model
WordChar == Letter \cup Digit \cup {"_"}

\* \s on the characters of the model
Space == {" ", "\t", "\n"}

\* str.islower() of one character
IsLower(c) == c \in Lower

\* str.upper() of one character
ToUpper(c) ==
    IF c \in Lower
    THEN CharAt(UpperSeq, CHOOSE i \in 1..Len(LowerSeq) : CharAt(LowerSeq, i) = c)
    ELSE c

-----------------------------------------------------------------------------
(* Regular-expression primitives *)

RECURSIVE SkipWhile(_, _, _)
\* position after the longest run of characters of class C starting at p
\* (a greedy C* followed by something no character of C can start)
SkipWhile(s, p, C) ==
    IF p <= Len(s) /\ CharAt(s, p) \in C THEN SkipWhile(s, p + 1, C) ELSE p

RECURSIVE FindChar(_, _, _)
\* position of the first c at or after p, Len(s) + 1 if there is none
FindChar(s, p, c) ==
    IF p > Len(s) \/ CharAt(s, p) = c THEN p ELSE FindChar(s, p + 1, c)

\* a literal at position p
StartsWith(s, p, lit) ==
    p + Len(lit) - 1 <= Len(s) /\ SubSeq(s, p, p + Len(lit) - 1) = lit

\* ^ under (?m)
AtLineStart(s, p) == p = 1 \/ CharAt(s, p - 1) = "\n"

\* $ under (?m)
AtLineEnd(s, p) == p = Len(s) + 1 \/ CharAt(s, p) = "\n"

\* \b
WordBoundary(s, p) == (CharAt(s, p - 1) \in WordChar) # (CharAt(s, p) \in WordChar)

RECURSIVE CountNewlines(_, _)
\* content.count('\n', 0, p - 1): the newlines before position p
CountNewlines(s, p) ==
    IF p <= 1 THEN 0
    ELSE CountNewlines(s, p - 1) + (IF CharAt(s, p - 1) = "\n" THEN 1 ELSE 0)

RECURSIVE Contains(_, _, _)
\* lit in s[p:]
Contains(s, p, lit) ==
    IF p + Len(lit) - 1 > Len(s) THEN FALSE
    ELSE StartsWith(s, p, lit) \/ Contains(s, p + 1, lit)

NoMatch == [ok |-> FALSE, start |-> 0, end |-> 0, name |-> ""]

-----------------------------------------------------------------------------
(* Start-case checker: check_uppercase_first_letter_measures_tables *)

\* the four declaration patterns; lead: the pattern opens with ^\s* (else ^),
\* quoted: the name is '([^']+?)' (else ([a-zA-Z][a-zA-Z0-9_]*)\b),
\* tail: the pattern closes with (?:\s*=|$)
measure_patterns ==
    << [kw |-> "measure", lead |-> TRUE, quoted |-> TRUE, tail |-> TRUE],
       [kw |-> "measure", lead |-> TRUE, quoted |-> FALSE, tail |-> TRUE] >>

table_patterns ==
    << [kw |-> "table", lead |-> FALSE, quoted |-> TRUE, tail |-> TRUE],
       [kw |-> "table", lead |-> FALSE, quoted |-> FALSE, tail |-> FALSE] >>

\* (?:\s*=|$) at position p: the end of the match, 0 if it fails
TailEnd(s, p) ==
    LET e == SkipWhile(s, p, Space)
    IN  IF CharAt(s, e) = "=" THEN e + 1
        ELSE IF AtLineEnd(s, p) THEN p
        ELSE 0

\* one declaration pattern tried at position p
DeclMatchAt(pat, s, p) ==
    IF ~AtLineStart(s, p) THEN NoMatch
    ELSE
    LET a == IF pat.lead THEN SkipWhile(s, p, Space) ELSE p
        b == a + Len(pat.kw)
        c == SkipWhile(s, b, Space)
    IN  IF ~StartsWith(s, a, pat.kw) \/ c = b THEN NoMatch
        ELSE IF pat.quoted
        THEN LET q == FindChar(s, c + 1, "'")
                 e == IF pat.tail THEN TailEnd(s, q + 1) ELSE q + 1
             IN  IF CharAt(s, c) # "'" \/ q > Len(s) \/ q = c + 1 \/ e = 0
                 THEN NoMatch
                 ELSE [ok |-> TRUE, start |-> p, end |-> e,
                       name |-> SubSeq(s, c + 1, q - 1)]
        ELSE LET d == SkipWhile(s, c + 1, WordChar)
                 e == IF pat.tail THEN TailEnd(s, d) ELSE d
             IN  IF CharAt(s, c) \notin Letter \/ ~WordBoundary(s, d) \/ e = 0
                 THEN NoMatch
                 ELSE [ok |-> TRUE, start |-> p, end |-> e,
                       name |-> SubSeq(s, c, d - 1)]

RECURSIVE FindIter(_, _, _)
\* re.finditer(pattern, content): the non-overlapping matches, left to right
FindIter(pat, s, p) ==
    IF p > Len(s) + 1 THEN <<>>
    ELSE LET m == DeclMatchAt(pat, s, p)
         IN  IF m.ok THEN <<m>> \o FindIter(pat, s, IF m.end > p THEN m.end ELSE p + 1)
             ELSE FindIter(pat, s, p + 1)

\* kw\s+'name' (quoted) or kw\s+name\b (unquoted) tried at position p:
\* the end of the match, 0 if it fails
KeyedMatchEnd(s, p, kw, quoted, name) ==
    LET b == p + Len(kw)
        c == SkipWhile(s, b, Space)
        lit == IF quoted THEN "'" \o name \o "'" ELSE name
        e == c + Len(lit)
    IN  IF StartsWith(s, p, kw) /\ c > b /\ StartsWith(s, c, lit)
           /\ (quoted \/ WordBoundary(s, e))
        THEN e ELSE 0

RECURSIVE KeyedSearch(_, _, _, _, _)
\* bool(re.search(rf"kw\s+'name'", s))
KeyedSearch(s, p, kw, quoted, name) ==
    IF p > Len(s) THEN FALSE
    ELSE KeyedMatchEnd(s, p, kw, quoted, name) # 0
         \/ KeyedSearch(s, p + 1, kw, quoted, name)

\* the condition under which a match is a violation
StartsLowercase(name) == IsLower(CharAt(name, 1))

\* variant of IsQuotedMatch: the quoted form is never recognised
IsQuotedNever(s, m, kw) == FALSE

\* is_quoted of a match
IsQuotedMatch(s, m, kw) ==
    KeyedSearch(SubSeq(s, m.start, m.end - 1), 1, kw, TRUE, m.name)

RECURSIVE StartCaseOfMatches(_, _, _, _, _)
\* the violations appended for the matches ms (from index i) of one pattern
StartCaseOfMatches(ms, i, s, file, kw) ==
    IF i > Len(ms) THEN <<>>
    ELSE (IF StartsLowercase(ms[i].name)
          THEN << [type |-> kw, name |-> ms[i].name,
                   line |-> CountNewlines(s, ms[i].start) + 1,
                   file |-> file,
                   is_quoted |-> IsQuotedMatch(s, ms[i], kw)] >>
          ELSE <<>>)
         \o StartCaseOfMatches(ms, i + 1, s, file, kw)

StartCaseOfPattern(pat, s, file) ==
    StartCaseOfMatches(FindIter(pat, s, 1), 1, s, file, pat.kw)

\* the body of the per-file loop
StartCaseOfFile(s, file) ==
    StartCaseOfPattern(measure_patterns[1], s, file)
    \o StartCaseOfPattern(measure_patterns[2], s, file)
    \o StartCaseOfPattern(table_patterns[1], s, file)
    \o StartCaseOfPattern(table_patterns[2], s, file)

-----------------------------------------------------------------------------
(* No-unspaced-PascalCase checker: check_no_pascalcase_columns_hierarchies *)

\* (column|calculatedColumn|dataColumn|calculatedTableColumn|hierarchy)
BlockKeywords ==
    <<"column", "calculatedColumn", "dataColumn", "calculatedTableColumn", "hierarchy">>

\* \t*(keyword)\s+ at position p; name: the position after \s+
BlockHeadAt(s, p) ==
    LET a == SkipWhile(s, p, {"\t"})
        hits == {i \in 1..Len(BlockKeywords) :
                    /\ StartsWith(s, a, BlockKeywords[i])
                    /\ CharAt(s, a + Len(BlockKeywords[i])) \in Space}
    IN  IF hits = {} THEN [ok |-> FALSE, kw |-> "", name |-> 0]
        ELSE LET i == CHOOSE i \in hits : \A j \in hits : i <= j
             IN  [ok |-> TRUE, kw |-> BlockKeywords[i],
                  name |-> SkipWhile(s, a + Len(BlockKeywords[i]), Space)]

RECURSIVE SplitBlocks(_, _, _)
\* re.split(r'\n(?=\t*(?:keyword)\s+)', content), scanning from p with the
\* current block starting at from
SplitBlocks(s, p, from) ==
    IF p > Len(s) THEN << SubSeq(s, from, Len(s)) >>
    ELSE IF CharAt(s, p) = "\n" /\ BlockHeadAt(s, p + 1).ok
    THEN << SubSeq(s, from, p - 1) >> \o SplitBlocks(s, p + 1, p + 1)
    ELSE SplitBlocks(s, p + 1, from)

\* re.match(r'\t*(keyword)\s+([A-Za-z][A-Za-z0-9_]*)', block)
BlockMatch(block) ==
    LET h == BlockHeadAt(block, 1)
        d == SkipWhile(block, h.name + 1, WordChar)
    IN  IF h.ok /\ CharAt(block, h.name) \in Letter
        THEN [ok |-> TRUE, type |-> h.kw, name |-> SubSeq(block, h.name, d - 1)]
        ELSE [ok |-> FALSE, type |-> "", name |-> ""]

\* re.match(pascal_pattern, name): [A-Z] then one of the two alternatives (each
\* run is followed by a character outside its class, so the greedy run is the
\* only one that can match); the closing [A-Za-z0-9]* matches the empty string
PascalMatch(name) ==
    LET a1 == SkipWhile(name, 2, Upper \cup Digit)
        b1 == SkipWhile(name, a1 + 1, Lower \cup Digit)
        a2 == SkipWhile(name, 2, Lower \cup Digit)
        b2 == SkipWhile(name, a2 + 1, Upper \cup Digit)
    IN  /\ CharAt(name, 1) \in Upper
        /\ \/ CharAt(name, a1) \in Lower /\ CharAt(name, b1) \in Upper
           \/ CharAt(name, a2) \in Upper /\ CharAt(name, b2) \in Lower

is_pascalcase_without_spaces(name) == PascalMatch(name) /\ ~Contains(name, 1, " ")

\* variant of BlockIsHidden: the hidden-visibility marker is ignored
BlockNeverHidden(block) == FALSE

\* 'isHidden' in block
BlockIsHidden(block) == Contains(block, 1, "isHidden")

RECURSIVE PascalOfBlocks(_, _, _, _)
\* the loop over the blocks from index i, current_line being line
PascalOfBlocks(blocks, i, line, file) ==
    IF i > Len(blocks) THEN <<>>
    ELSE LET m == BlockMatch(blocks[i])
             next == line + CountNewlines(blocks[i], Len(blocks[i]) + 1)
         IN  (IF m.ok /\ ~BlockIsHidden(blocks[i]) /\ is_pascalcase_without_spaces(m.name)
              THEN << [type |-> m.type, name |-> m.name, line |-> line, file |-> file] >>
              ELSE <<>>)
             \o PascalOfBlocks(blocks, i + 1, next, file)

\* the body of the per-file loop
PascalOfFile(s, file) == PascalOfBlocks(SplitBlocks(s, 1, 1), 1, 1, file)

-----------------------------------------------------------------------------
(* Files *)

\* model.tmdl; the table files are 1, 2, ...
MainFile == 0

NoFault == <<>>

FaultKinds == {"read", "write", "flush"}

\* open(file, "r") raises
ReadFails(f, flt) == flt # NoFault /\ flt[1].file = f /\ flt[1].kind = "read"

\* open(file, "w") raises, the file is left as it was
WriteFails(f, flt) == flt # NoFault /\ flt[1].file = f /\ flt[1].kind = "write"

\* open(file, "w") has truncated the file and writing the buffered text
\* raises on f.write or on leaving the with block, the file is left empty
FlushFails(f, flt) == flt # NoFault /\ flt[1].file = f /\ flt[1].kind = "flush"

RECURSIVE SortedSeq(_)
SortedSeq(S) ==
    IF S = {} THEN <<>>
    ELSE LET m == CHOOSE m \in S : \A x \in S : m <= x
         IN  <<m>> \o SortedSeq(S \ {m})

\* list(tables_dir.glob("*.tmdl"))
GlobTables(d) == SortedSeq(DOMAIN d \ {MainFile})

\* tables_dir.exists()
TablesDirExists(d) == DOMAIN d # {MainFile}

\* load_content: the new content and table_files
LoadContent(d, flt, tf) ==
    IF ReadFails(MainFile, flt)
    THEN [content |-> <<>>, table_files |-> tf]
    ELSE [content |-> << d[MainFile] >>,
          table_files |-> IF TablesDirExists(d) THEN GlobTables(d) ELSE tf]

\* not self.content
NotContent(c) == c = <<>> \/ c[1] = ""

RuleOfFile(rule, s, file) ==
    IF rule = "S" THEN StartCaseOfFile(s, file) ELSE PascalOfFile(s, file)

RECURSIVE CheckFiles(_, _, _, _, _)
\* the loop over files_to_check from index i; a file that cannot be read is
\* skipped with a warning
CheckFiles(rule, files, i, d, flt) ==
    IF i > Len(files) THEN <<>>
    ELSE (IF ReadFails(files[i], flt) THEN <<>>
          ELSE RuleOfFile(rule, d[files[i]], files[i]))
         \o CheckFiles(rule, files, i + 1, d, flt)

\* a checker's return value, <<>> standing for None
RunChecker(rule, c, tf, d, flt) ==
    IF NotContent(c) THEN <<>>
    ELSE CheckFiles(rule, <<MainFile>> \o tf, 1, d, flt)

\* whether a checker call opens the file that flt makes unreadable
FaultMetByChecker(c, tf, flt) ==
    /\ ~NotContent(c)
    /\ \E i \in 1..Len(<<MainFile>> \o tf) : ReadFails((<<MainFile>> \o tf)[i], flt)

-----------------------------------------------------------------------------
(* Fixers: fix_uppercase_first_letter, fix_pascalcase_columns_hierarchies *)

\* variant of Capitalize: the name is left as it is
CapitalizeNothing(name) == name

\* old_name[0].upper() + old_name[1:]
Capitalize(name) == ToUpper(CharAt(name, 1)) \o SubSeq(name, 2, Len(name))

RECURSIVE SpacedFrom(_, _)
\* re.sub(r'(?<!^)(?<![\W_])([A-Z][a-z])', r' \1', old_name) from position p
SpacedFrom(name, p) ==
    IF p > Len(name) THEN ""
    ELSE IF /\ p > 1
            /\ CharAt(name, p - 1) \in Letter \cup Digit
            /\ CharAt(name, p) \in Upper
            /\ CharAt(name, p + 1) \in Lower
    THEN " " \o SubSeq(name, p, p + 1) \o SpacedFrom(name, p + 2)
    ELSE CharAt(name, p) \o SpacedFrom(name, p + 1)

SpacedName(name) == SpacedFrom(name, 1)

RECURSIVE ReSub(_, _, _, _, _, _)
\* re.sub(rf"{kw}\s+'{old}'" or rf"{kw}\s+{old}\b", repl, s) from position p;
\* the names of the model hold no backslash, so repl is taken literally
ReSub(s, p, kw, quoted, old, repl) ==
    IF p > Len(s) THEN ""
    ELSE LET e == KeyedMatchEnd(s, p, kw, quoted, old)
         IN  IF e # 0 THEN repl \o ReSub(s, e, kw, quoted, old, repl)
             ELSE CharAt(s, p) \o ReSub(s, p + 1, kw, quoted, old, repl)

\* variant of StartCaseRepl: the replacement is always written quoted
StartCaseReplQuoting(v) ==
    v.type \o " '" \o ToUpper(CharAt(v.name, 1)) \o SubSeq(v.name, 2, Len(v.name)) \o "'"

\* the replacement of one start-case violation
StartCaseRepl(v) ==
    IF v.is_quoted THEN v.type \o " '" \o Capitalize(v.name) \o "'"
    ELSE v.type \o " " \o Capitalize(v.name)

\* the replacement of one PascalCase violation
PascalRepl(v) == v.type \o " '" \o SpacedName(v.name) \o "'"

\* one iteration of "for violation in file_violations"
FixOne(rule, s, v) ==
    IF rule = "S" THEN ReSub(s, 1, v.type, v.is_quoted, v.name, StartCaseRepl(v))
    ELSE ReSub(s, 1, v.type, FALSE, v.name, PascalRepl(v))

RECURSIVE FixText(_, _, _, _)
\* the content after the violations vs, from index i, are fixed in turn
FixText(rule, s, vs, i) ==
    IF i > Len(vs) THEN s ELSE FixText(rule, FixOne(rule, s, vs[i]), vs, i + 1)

RECURSIVE ViolationsOf(_, _, _)
\* violations_by_file[f]
ViolationsOf(vs, i, f) ==
    IF i > Len(vs) THEN <<>>
    ELSE (IF vs[i].file = f THEN << vs[i] >> ELSE <<>>) \o ViolationsOf(vs, i + 1, f)

RECURSIVE FileOrder(_, _, _)
\* the keys of violations_by_file, in insertion order
FileOrder(vs, i, seen) ==
    IF i > Len(vs) THEN <<>>
    ELSE IF vs[i].file \in seen THEN FileOrder(vs, i + 1, seen)
    ELSE << vs[i].file >> \o FileOrder(vs, i + 1, seen \cup {vs[i].file})

RECURSIVE FixFiles(_, _, _, _, _, _)
\* the loop over violations_by_file from index i: the disk it leaves and
\* whether an exception ended it
FixFiles(rule, order, i, vs, d, flt) ==
    IF i > Len(order) THEN [disk |-> d, err |-> FALSE]
    ELSE LET f == order[i]
             fixed == FixText(rule, d[f], ViolationsOf(vs, 1, f), 1)
         IN  IF ReadFails(f, flt) \/ WriteFails(f, flt)
             THEN [disk |-> d, err |-> TRUE]
             ELSE IF FlushFails(f, flt)
             THEN [disk |-> [d EXCEPT ![f] = ""], err |-> TRUE]
             ELSE FixFiles(rule, order, i + 1, vs, [d EXCEPT ![f] = fixed], flt)

\* a fixer call: the disk it leaves and whether it returns an error
RunFixer(rule, vs, d, flt) == FixFiles(rule, FileOrder(vs, 1, {}), 1, vs, d, flt)

-----------------------------------------------------------------------------
(* Inputs *)

\* the lines a file of the single-file specification is made of
LinePool ==
    { "table dimSales",
      "table 'dimSales'",
      "table Sales",
      "\tmeasure 'salesAmount' = SUM(x)",
      "\tmeasure  salesAmount = 1",
      "\tmeasure Total = 1",
      "",
      "\t// table  dimSales",
      "\tcolumn SalesAmountUSD",
      "\t\tisHidden",
      "\thierarchy salesGeoMap",
      "\tcolumn 'SalesAmount'",
      "\tdataColumn Sales_KeyId" }

RECURSIVE TextsOfLines(_)
\* the texts of exactly n lines
TextsOfLines(n) ==
    IF n = 1 THEN LinePool
    ELSE {t \o "\n" \o l : t \in TextsOfLines(n - 1), l \in LinePool}

Texts == UNION {TextsOfLines(n) : n \in 1..MaxLines}

\* the texts a file of the multi-file specification holds: empty or with two
\* violations, of the start-case rule in one folder, of the PascalCase rule
\* in the other
IOTexts ==
    { {"", "table dimS\nmeasure 'netS' = 1"},
      {"", "column NetAmtUSD\ncolumn SAb"} }

IOFiles == {MainFile} \cup (1..NumTables)

\* the failures an operation can meet: none, or one file failing one way
ReadFaults == {NoFault} \cup {<< [file |-> f, kind |-> "read"] >> : f \in IOFiles}

Faults == {NoFault} \cup {<< [file |-> f, kind |-> k] >> : f \in IOFiles, k \in FaultKinds}

-----------------------------------------------------------------------------
(* State machine *)

\* the state after RuleChecker(model_path) on the disk d
Constructed(d) ==
    /\ disk = d
    /\ fault = NoFault
    /\ content = LoadContent(d, NoFault, <<>>).content
    /\ table_files = LoadContent(d, NoFault, <<>>).table_files
    /\ lastOp = "init"
    /\ prevOp = "other"
    /\ pending = "none"
    /\ result = <<>>
    /\ passed = <<>>
    /\ fixErr = FALSE
    /\ preDisk = d

\* a model folder without a tables directory
Init == \E t \in Texts : Constructed([f \in {MainFile} |-> t])

\* a model folder with NumTables table files
InitIO == \E T \in IOTexts : \E d \in [IOFiles -> T] : Constructed(d)

IsFix(op) == op \in {"fixS", "fixP"}

\* the fixer call that ran last, with nothing but script reruns after it
LastFix ==
    IF IsFix(lastOp) THEN lastOp ELSE IF lastOp = "init" THEN prevOp ELSE "other"

\* RuleChecker.__init__ of a new script run
Construct(flt) ==
    /\ content' = LoadContent(disk, flt, <<>>).content
    /\ table_files' = LoadContent(disk, flt, <<>>).table_files
    /\ fault' = IF ReadFails(MainFile, flt) THEN flt ELSE NoFault
    /\ lastOp' = "init"
    /\ prevOp' = LastFix
    /\ pending' = "none"
    /\ result' = <<>>
    /\ passed' = <<>>
    /\ fixErr' = (LastFix # "other" /\ fixErr)
    /\ preDisk' = disk
    /\ UNCHANGED disk

\* variant of Check: the list of a repeated call is appended to the list of
\* the call before
CheckAccumulating(rule, flt) ==
    /\ result' = (IF lastOp = "check" \o rule THEN result ELSE <<>>)
                 \o RunChecker(rule, content, table_files, disk, flt)
    /\ fault' = IF FaultMetByChecker(content, table_files, flt) THEN flt ELSE NoFault
    /\ lastOp' = "check" \o rule
    /\ prevOp' = IF LastFix # "other" THEN LastFix
                 ELSE IF lastOp = "check" \o rule THEN "same" ELSE "other"
    /\ pending' = IF result' # <<>> THEN rule ELSE "none"
    /\ passed' = <<>>
    /\ fixErr' = (LastFix # "other" /\ fixErr)
    /\ preDisk' = disk
    /\ UNCHANGED <<disk, content, table_files>>

\* a checker call; main() shows the Fix button when the list is not empty
Check(rule, flt) ==
    /\ result' = RunChecker(rule, content, table_files, disk, flt)
    /\ fault' = IF FaultMetByChecker(content, table_files, flt) THEN flt ELSE NoFault
    /\ lastOp' = "check" \o rule
    /\ prevOp' = IF LastFix # "other" THEN LastFix
                 ELSE IF lastOp = "check" \o rule THEN "same" ELSE "other"
    /\ pending' = IF result' # <<>> THEN rule ELSE "none"
    /\ passed' = <<>>
    /\ fixErr' = (LastFix # "other" /\ fixErr)
    /\ preDisk' = disk
    /\ UNCHANGED <<disk, content, table_files>>

\* a fixer call on the list its checker has just returned; load_content
\* runs only when no exception ended the loop
Fix(rule, flt) ==
    /\ pending = rule
    /\ LET r == RunFixer(rule, result, disk, flt)
           l == LoadContent(r.disk, flt, table_files)
       IN  /\ disk' = r.disk
           /\ fixErr' = r.err
           /\ content' = IF r.err THEN content ELSE l.content
           /\ table_files' = IF r.err THEN table_files ELSE l.table_files
           /\ fault' = IF r.err \/ ReadFails(MainFile, flt) THEN flt ELSE NoFault
    /\ passed' = result
    /\ preDisk' = disk
    /\ lastOp' = "fix" \o rule
    /\ prevOp' = "other"
    /\ pending' = "none"
    /\ result' = <<>>

CheckUppercase(flt) == Check("S", flt)

CheckPascal(flt) == Check("P", flt)

FixUppercase(flt) == Fix("S", flt)

FixPascal(flt) == Fix("P", flt)

Next ==
    \/ Construct(NoFault)
    \/ CheckUppercase(NoFault)
    \/ CheckPascal(NoFault)
    \/ FixUppercase(NoFault)
    \/ FixPascal(NoFault)

Spec == Init /\ [][Next]_vars

\* a checker or the constructor only reads, so only a read failure can meet it
NextIO ==
    \/ \E flt \in {NoFault, << [file |-> MainFile, kind |-> "read"] >>} : Construct(flt)
    \/ \E flt \in ReadFaults : CheckUppercase(flt)
    \/ \E flt \in ReadFaults : CheckPascal(flt)
    \/ \E flt \in Faults : FixUppercase(flt)
    \/ \E flt \in Faults : FixPascal(flt)

SpecIO == InitIO /\ [][NextIO]_vars

-----------------------------------------------------------------------------
(* Reference reading of a file, line by line, for the properties below *)

Blank == {" ", "\t"}

RECURSIVE SplitLines(_, _, _)
SplitLines(s, p, from) ==
    IF p > Len(s) THEN << SubSeq(s, from, Len(s)) >>
    ELSE IF CharAt(s, p) = "\n"
    THEN << SubSeq(s, from, p - 1) >> \o SplitLines(s, p + 1, p + 1)
    ELSE SplitLines(s, p + 1, from)

\* the lines of a text
Lines(s) == SplitLines(s, 1, 1)

\* the identifier that follows a keyword ending before position b of a line:
\* 'Name' or Name, after at least one blank
RefName(line, b) ==
    LET c == SkipWhile(line, b, Blank)
        quoted == CharAt(line, c) = "'"
        q == FindChar(line, c + 1, "'")
        d == SkipWhile(line, c, WordChar)
    IN  [ok |-> /\ c > b
                /\ IF quoted THEN q <= Len(line) /\ q > c + 1
                   ELSE CharAt(line, c) \in Letter,
         is_quoted |-> quoted,
         at |-> c,
         name |-> IF quoted THEN SubSeq(line, c + 1, q - 1) ELSE SubSeq(line, c, d - 1),
         rest |-> IF quoted THEN q + 1 ELSE d]

\* a line as a table or measure declaration header: "table Name",
\* "table 'Name'" at the start of the line, "measure Name = ...",
\* "measure 'Name' = ..." after optional indentation
RefHeader(line) ==
    LET a == SkipWhile(line, 1, Blank)
        kw == IF StartsWith(line, 1, "table") THEN "table"
              ELSE IF StartsWith(line, a, "measure") THEN "measure" ELSE ""
        b == (IF kw = "table" THEN 1 ELSE a) + Len(kw)
        n == RefName(line, b)
        r == SkipWhile(line, n.rest, Blank)
    IN  [ok |-> /\ kw # ""
                /\ n.ok
                /\ \/ n.rest > Len(line)
                   \/ CharAt(line, r) = "="
                   \/ kw = "table" /\ ~n.is_quoted /\ CharAt(line, n.rest) \notin WordChar,
         type |-> kw, name |-> n.name, is_quoted |-> n.is_quoted, at |-> n.at,
         rest |-> n.rest]

\* a line as the head of a column or hierarchy declaration block
RefBlockHead(line) ==
    LET a == SkipWhile(line, 1, {"\t"})
        kws == {i \in 1..Len(BlockKeywords) :
                   /\ StartsWith(line, a, BlockKeywords[i])
                   /\ CharAt(line, a + Len(BlockKeywords[i])) \in Blank}
        kw == IF kws = {} THEN "" ELSE BlockKeywords[CHOOSE i \in kws : TRUE]
        n == RefName(line, a + Len(kw))
    IN  [ok |-> kws # {} /\ n.ok,
         type |-> kw, name |-> n.name, is_quoted |-> n.is_quoted, at |-> n.at,
         rest |-> n.rest]

\* line i of ls opens a block, which runs to the line before the next head
IsHead(ls, i) == RefBlockHead(ls[i]).ok

\* the block opened at line i holds the hidden-visibility marker
RefHidden(ls, i) ==
    \E j \in i..Len(ls) :
        /\ Contains(ls[j], 1, "isHidden")
        /\ \A k \in (i + 1)..j : ~IsHead(ls, k)

\* the pattern of the PascalCase classifier read from position p of a name:
\* an uppercase letter, then upper-run, lowercase, lower-run, uppercase, or
\* lower-run, uppercase, upper-run, lowercase (digits count in either run)
TransitionAt(name, p) ==
    /\ CharAt(name, p) \in Upper
    /\ \E a \in (p + 1)..Len(name), b \in (p + 2)..Len(name) :
        /\ a < b
        /\ \/ /\ \A i \in (p + 1)..(a - 1) : CharAt(name, i) \in Upper \cup Digit
              /\ CharAt(name, a) \in Lower
              /\ \A i \in (a + 1)..(b - 1) : CharAt(name, i) \in Lower \cup Digit
              /\ CharAt(name, b) \in Upper
           \/ /\ \A i \in (p + 1)..(a - 1) : CharAt(name, i) \in Lower \cup Digit
              /\ CharAt(name, a) \in Upper
              /\ \A i \in (a + 1)..(b - 1) : CharAt(name, i) \in Upper \cup Digit
              /\ CharAt(name, b) \in Lower

\* the identifier contains such a transition somewhere
HasTransition(name) == \E p \in 1..Len(name) : TransitionAt(name, p)

RECURSIVE Project(_, _)
\* the violations without their line and file
Project(vs, i) ==
    IF i > Len(vs) THEN <<>>
    ELSE << [type |-> vs[i].type, name |-> vs[i].name] >> \o Project(vs, i + 1)

\* how many entries of vs carry this type, name and quoted flag
CountOf(vs, t, n, q) ==
    Cardinality({i \in 1..Len(vs) :
                    vs[i].type = t /\ vs[i].name = n /\ vs[i].is_quoted = q})

RuleOf(op) == IF op \in {"checkS", "fixS"} THEN "S" ELSE "P"

IsCheck(op) == op \in {"checkS", "checkP"}

-----------------------------------------------------------------------------
(* Properties *)

\* the header lines of ls that declare this type, name and quoted flag
HeadersOf(ls, t, n, q) ==
    {i \in 1..Len(ls) :
        LET h == RefHeader(ls[i])
        IN  h.ok /\ h.type = t /\ h.name = n /\ h.is_quoted = q}

\* C1: after the start-case checker has run, every file's table and measure
\* headers whose name starts with a lowercase letter are reported once each,
\* with their type, name and quoted flag, and nothing else is reported
C1_StartCaseDetection ==
    lastOp = "checkS" =>
        \A f \in DOMAIN disk :
            LET ls == Lines(disk[f])
                vs == ViolationsOf(result, 1, f)
            IN  /\ \A i \in 1..Len(ls) :
                     LET h == RefHeader(ls[i])
                     IN  h.ok =>
                            CountOf(vs, h.type, h.name, h.is_quoted)
                            = IF CharAt(h.name, 1) \in Lower
                              THEN Cardinality(HeadersOf(ls, h.type, h.name, h.is_quoted))
                              ELSE 0
                /\ \A k \in 1..Len(vs) :
                     HeadersOf(ls, vs[k].type, vs[k].name, vs[k].is_quoted) # {}

\* C1 witness: a quoted measure and an unquoted table reported together
C1_Witness ==
    /\ lastOp = "checkS"
    /\ \E i, j \in 1..Len(result) :
        /\ result[i].type = "measure" /\ result[i].is_quoted
           /\ result[i].name = "salesAmount"
        /\ result[j].type = "table" /\ ~result[j].is_quoted
           /\ result[j].name = "dimSales"

RECURSIVE RefPascal(_, _, _)
\* what the PascalCase checker is to report for the lines ls from line i:
\* the heads of visible blocks whose identifier is PascalCase without
\* spaces; amended: unquoted and with the transition at its first character,
\* else: with the transition anywhere in it
RefPascal(ls, i, amended) ==
    IF i > Len(ls) THEN <<>>
    ELSE LET h == RefBlockHead(ls[i])
             hit == /\ h.ok
                    /\ ~RefHidden(ls, i)
                    /\ ~Contains(h.name, 1, " ")
                    /\ IF amended THEN ~h.is_quoted /\ TransitionAt(h.name, 1)
                       ELSE HasTransition(h.name)
         IN  (IF hit THEN << [type |-> h.type, name |-> h.name] >> ELSE <<>>)
             \o RefPascal(ls, i + 1, amended)

\* C2 as claimed: a block is reported iff it holds no isHidden and its
\* declared identifier contains a PascalCase transition and no space
C2_Original ==
    lastOp = "checkP" =>
        Project(result, 1) = RefPascal(Lines(disk[MainFile]), 1, FALSE)

\* C2 as amended: a block is reported iff it holds no isHidden and its
\* identifier is unquoted and opens with the PascalCase pattern: an
\* uppercase first letter followed, over letters and digits only, by the
\* letter-case transition
C2_Amended ==
    lastOp = "checkP" =>
        Project(result, 1) = RefPascal(Lines(disk[MainFile]), 1, TRUE)

\* C2 witness: a visible PascalCase column reported beside a camelCase
\* hierarchy that is not
C2_Witness ==
    /\ lastOp = "checkP"
    /\ disk[MainFile] = "\tcolumn SalesAmountUSD\n\thierarchy salesGeoMap"
    /\ Project(result, 1) = << [type |-> "column", name |-> "SalesAmountUSD"] >>

RECURSIVE RefSpacedFrom(_, _)
\* the name from position p with a space before every uppercase letter that
\* begins a word segment: one that follows a lowercase letter or a digit, or
\* follows a letter and is followed by a lowercase letter
RefSpacedFrom(name, p) ==
    IF p > Len(name) THEN ""
    ELSE (IF /\ p > 1
             /\ CharAt(name, p) \in Upper
             /\ CharAt(name, p - 1) \in Letter \cup Digit
             /\ \/ CharAt(name, p - 1) \in Lower \cup Digit
                \/ CharAt(name, p + 1) \in Lower
          THEN " " ELSE "")
         \o CharAt(name, p) \o RefSpacedFrom(name, p + 1)

\* C3 as claimed: after the PascalCase fixer, each reported declaration reads
\* keyword, space, the spaced form in single quotes
C3_Claim ==
    (lastOp = "fixP" /\ ~fixErr) =>
        \A i \in 1..Len(passed) :
            Contains(disk[passed[i].file], 1,
                     passed[i].type \o " '" \o RefSpacedFrom(passed[i].name, 1) \o "'")

\* C4: after the start-case fixer, every header it was given a violation for
\* declares the same name with its first letter in uppercase, in the same
\* quoted or unquoted shape, on the same line
C4_StartCaseFix ==
    (lastOp = "fixS" /\ ~fixErr) =>
        \A k \in 1..Len(passed) :
            LET v == passed[k]
                pre == Lines(preDisk[v.file])
                post == Lines(disk[v.file])
                at == HeadersOf(pre, v.type, v.name, v.is_quoted)
            IN  /\ Len(post) = Len(pre)
                /\ at # {}
                /\ \A i \in at :
                     LET g == RefHeader(post[i])
                     IN  /\ g.ok
                         /\ g.type = v.type
                         /\ g.is_quoted = v.is_quoted
                         /\ g.name = ToUpper(CharAt(v.name, 1)) \o SubSeq(v.name, 2, Len(v.name))

\* C4 witness: a quoted measure and an unquoted table fixed in one call
C4_Witness ==
    /\ lastOp = "fixS" /\ ~fixErr
    /\ preDisk[MainFile] = "table dimSales\n\tmeasure 'salesAmount' = SUM(x)"
    /\ disk[MainFile] = "table DimSales\n\tmeasure 'SalesAmount' = SUM(x)"

\* C5: a checker run right after its fixer has fixed the list the checker
\* returned reports nothing
C5_Convergence ==
    /\ (lastOp = "checkS" /\ prevOp = "fixS" /\ ~fixErr) => result = <<>>
    /\ (lastOp = "checkP" /\ prevOp = "fixP" /\ ~fixErr) => result = <<>>

\* C5 witness: the PascalCase checker has run again on the fixed column
C5_Witness ==
    /\ lastOp = "checkP" /\ prevOp = "fixP" /\ ~fixErr
    /\ Contains(disk[MainFile], 1, "column 'Sales AmountUSD'")

\* C6 as claimed: the line of every violation is the line of the file that
\* declares it
C6_Claim ==
    IsCheck(lastOp) =>
        \A i \in 1..Len(result) :
            LET v == result[i]
                ls == Lines(disk[v.file])
                h == IF lastOp = "checkS" THEN RefHeader(ls[v.line])
                     ELSE RefBlockHead(ls[v.line])
            IN  /\ v.line \in 1..Len(ls)
                /\ h.ok /\ h.type = v.type /\ h.name = v.name

\* C7: a checker call changes no file, nor content, nor table_files; and a
\* checker called twice in a row, the same files being readable both times,
\* returns the same list
C7_CheckerIdempotent ==
    [][IsCheck(lastOp') =>
          /\ UNCHANGED <<disk, content, table_files>>
          /\ (lastOp = lastOp' /\ fault = fault') => result' = result]_vars

\* C7 witness: the start-case checker has run twice in a row on a folder
\* where it reports violations of several files
C7_Witness ==
    /\ lastOp = "checkS" /\ prevOp = "same" /\ fault = NoFault
    /\ \E i, j \in 1..Len(result) : result[i].file # result[j].file

\* the reference reading of the text s holds a violation of the rule
RefReports(rule, s) ==
    IF rule = "S"
    THEN \E i \in 1..Len(Lines(s)) :
            LET h == RefHeader(Lines(s)[i]) IN h.ok /\ CharAt(h.name, 1) \in Lower
    ELSE RefPascal(Lines(s), 1, TRUE) # <<>>

\* C8 as claimed: after a checker call, every table file that was readable
\* and holds a violation of the rule has a violation in the returned list
C8_Claim ==
    IsCheck(lastOp) =>
        \A f \in DOMAIN disk \ {MainFile} :
            (/\ fault = NoFault \/ fault[1].file # f
             /\ RefReports(RuleOf(lastOp), disk[f]))
            => \E i \in 1..Len(result) : result[i].file = f

\* C9 as claimed: after a fixer call, every line that is not a reported
\* declaration is as it was, and a reported declaration keeps everything
\* before and after its identifier
C9_Claim ==
    (IsFix(lastOp) /\ ~fixErr) =>
        \A f \in DOMAIN disk :
            LET pre == Lines(preDisk[f])
                post == Lines(disk[f])
            IN  /\ Len(post) = Len(pre)
                /\ \A i \in 1..Len(pre) :
                     LET h == IF lastOp = "fixS" THEN RefHeader(pre[i])
                              ELSE RefBlockHead(pre[i])
                         reported ==
                             /\ h.ok
                             /\ lastOp = "fixP" => ~RefHidden(pre, i)
                             /\ \E k \in 1..Len(passed) :
                                  /\ passed[k].file = f
                                  /\ passed[k].type = h.type
                                  /\ passed[k].name = h.name
                                  /\ lastOp = "fixS" => passed[k].is_quoted = h.is_quoted
                         tail == Len(pre[i]) - h.rest + 1
                     IN  IF reported
                         THEN /\ SubSeq(post[i], 1, h.at - 1) = SubSeq(pre[i], 1, h.at - 1)
                              /\ SubSeq(post[i], Len(post[i]) - tail + 1, Len(post[i]))
                                 = SubSeq(pre[i], h.rest, Len(pre[i]))
                         ELSE post[i] = pre[i]

\* the list vs is what the reference reading of the folder d reports for
\* the rule: per file, the same declarations
ReportsDisk(rule, vs, d) ==
    \A f \in DOMAIN d :
        LET ls == Lines(d[f])
            fs == ViolationsOf(vs, 1, f)
        IN  IF rule = "P" THEN Project(fs, 1) = RefPascal(ls, 1, TRUE)
            ELSE /\ \A k \in 1..Len(fs) :
                      /\ CharAt(fs[k].name, 1) \in Lower
                      /\ CountOf(fs, fs[k].type, fs[k].name, fs[k].is_quoted)
                         = Cardinality(HeadersOf(ls, fs[k].type, fs[k].name, fs[k].is_quoted))
                 /\ \A i \in 1..Len(ls) :
                      LET h == RefHeader(ls[i])
                      IN  (h.ok /\ CharAt(h.name, 1) \in Lower)
                          => CountOf(fs, h.type, h.name, h.is_quoted) > 0

\* position of the file f in the sequence order, 0 if absent
IndexOf(order, f) ==
    IF \E j \in 1..Len(order) : order[j] = f
    THEN CHOOSE j \in 1..Len(order) : order[j] = f
    ELSE 0

\* a step that is a fixer call meeting a read or write failure on a file of
\* its list returns an error and leaves content and table_files as they
\* were; the files of the list before the failing one are rewritten with
\* none of their violations left, the failing one is as it was or emptied by
\* the failed write, every other file is as it was
FailedFixStep ==
    (/\ IsFix(lastOp')
     /\ fault' # NoFault
     /\ IndexOf(FileOrder(result, 1, {}), fault'[1].file) # 0)
    => LET order == FileOrder(result, 1, {})
           bad == IndexOf(order, fault'[1].file)
       IN  /\ fixErr'
           /\ UNCHANGED <<content, table_files>>
           /\ \A f \in DOMAIN disk :
                LET j == IndexOf(order, f)
                IN  IF j # 0 /\ j < bad
                    THEN /\ disk'[f] # disk[f]
                         /\ ~RefReports(RuleOf(lastOp'), disk'[f])
                    ELSE IF j = bad
                    THEN disk'[f] \in {disk[f], ""}
                    ELSE disk'[f] = disk[f]

\* C10 as claimed: a failed fixer call is as FailedFixStep says, and a
\* checker run after it, by the same RuleChecker or by the one of the next
\* script run, all files readable, returns what the folder then holds
C10_Claim ==
    [][/\ FailedFixStep
       /\ (/\ IsCheck(lastOp')
           /\ IsFix(prevOp') /\ fixErr'
           /\ fault' = NoFault /\ content' # <<>>)
          => ReportsDisk(RuleOf(lastOp'), result', disk')]_vars

====
